---- MODULE Spec2Model ----
(***************************************************************************)
(* Deploymint Mini (api/server.js): a local process supervisor.  The model *)
(* covers the configuration store (servers.json), the in-memory process   *)
(* map, the port normalisation getConfigPorts, the probes and signals the  *)
(* handlers send to the operating system, and the four request handlers   *)
(* status / start / stop / restart, one action per resumption of a handler *)
(* (every `await` is a point where other requests and the operating       *)
(* system may move).                                                       *)
(***************************************************************************)
EXTENDS Integers, Sequences, FiniteSets, TLC

(***************************************************************************)
(* Bounds                                                                  *)
(***************************************************************************)
\* processes the supervisor's launches may create during one run
MaxLaunch == 2
\* requests a scripted client issues in the scenario specification
MaxOps == 4

(***************************************************************************)
(* Universe                                                                *)
(***************************************************************************)
Ids == {"svc-a", "svc-b"}
PortA == 3000
PortB == 3001
Ports == {PortA, PortB}
\* processes that are not the supervisor's, listening before the run starts
ExtPids == {1, 2}
LaunchPids == {Cardinality(ExtPids) + k : k \in 1..MaxLaunch}
Pids == ExtPids \cup LaunchPids
GoodDir == "/tmp/app"
MissingDir == "/tmp/missing"
\* directories that exist on disk (fs.existsSync)
ExistingDirs == {GoodDir}
Cmd == "sleep 100"
OtherCmd == "sleep 200"

(***************************************************************************)
(* JSON values found in a configuration's port fields                      *)
(***************************************************************************)
Undef == [t |-> "undefined", n |-> 0]
Num(n) == [t |-> "number", n |-> n]
\* the decimal string of n, e.g. "3000"
NumStr(n) == [t |-> "numstring", n |-> n]
\* a string that is not a number, e.g. "abc"
BadStr == [t |-> "string", n |-> 0]
\* the JSON literal `true`
JsonTrue == [t |-> "boolean", n |-> 1]
\* a field that is not an array (absent)
NoArr == [isArray |-> FALSE, items |-> <<>>]
Arr(s) == [isArray |-> TRUE, items |-> s]

\* Number(value) of line 47: a number is itself, a decimal string its value,
\* true is 1; undefined and other strings give NaN
ToNumber(v) ==
    IF v.t \in {"number", "numstring", "boolean"}
    THEN [nan |-> FALSE, n |-> v.n]
    ELSE [nan |-> TRUE, n |-> 0]

InSeq(x, s) == \E k \in 1..Len(s) : s[k] = x

\* addPort collecting into an array instead of a Set
addPort_Array(ports, value) ==
    IF value.t \in {"undefined", "null"}
    THEN ports
    ELSE LET portNumber == ToNumber(value)
         IN  IF ~portNumber.nan /\ portNumber.n > 0
             THEN Append(ports, portNumber.n)
             ELSE ports

\* addPort of lines 42-52, on an insertion-ordered Set
addPort(ports, value) ==
    IF value.t \in {"undefined", "null"}
    THEN ports
    ELSE LET portNumber == ToNumber(value)
         IN  IF ~portNumber.nan /\ portNumber.n > 0
             THEN IF InSeq(portNumber.n, ports) THEN ports
                  ELSE Append(ports, portNumber.n)
             ELSE ports

RECURSIVE forEachAddPort(_, _)
forEachAddPort(ports, values) ==
    IF values = <<>> THEN ports
    ELSE forEachAddPort(addPort(ports, Head(values)), Tail(values))

getConfigPorts(config) ==
    LET p0 == addPort(<<>>, config.port)
        p1 == IF config.ports.isArray
              THEN forEachAddPort(p0, config.ports.items) ELSE p0
        p2 == IF config.additionalPorts.isArray
              THEN forEachAddPort(p1, config.additionalPorts.items) ELSE p1
    IN  p2

(***************************************************************************)
(* Configurations                                                          *)
(***************************************************************************)
NoConfig ==
    [defined |-> FALSE, directory |-> "", command |-> "",
     port |-> Undef, ports |-> NoArr, additionalPorts |-> NoArr]
Config(dir, port, ports, more) ==
    [defined |-> TRUE, directory |-> dir, command |-> Cmd,
     port |-> port, ports |-> ports, additionalPorts |-> more]

CfgSingle == Config(GoodDir, Num(PortA), NoArr, NoArr)
CfgMulti == Config(GoodDir, Num(PortA), NoArr, Arr(<<NumStr(PortB), Num(PortA)>>))
CfgNoDir == Config(MissingDir, Num(PortA), NoArr, NoArr)
CfgNoPorts == Config(GoodDir, BadStr, NoArr, NoArr)
CfgOther == Config(GoodDir, Undef, Arr(<<Num(PortB), Num(PortB)>>), NoArr)

(***************************************************************************)
(* Operating-system processes                                              *)
(***************************************************************************)
\* state: "free" (pid never used), "alive", "dead"
\* holds: ports the process listens on; wants: ports it has yet to bind
\* denied: signalling it fails with "Operation not permitted"
\* signalled: a SIGTERM was delivered and it has not exited yet
FreeProc ==
    [state |-> "free", holds |-> {}, wants |-> {}, denied |-> FALSE,
     signalled |-> FALSE, launched |-> FALSE, cmd |-> "", cwd |-> ""]
DeadProc == [FreeProc EXCEPT !.state = "dead"]
ExtProc(S, d) == [FreeProc EXCEPT !.state = "alive", !.holds = S, !.denied = d]

RECURSIVE SortedSeq(_)
SortedSeq(S) ==
    IF S = {} THEN <<>>
    ELSE LET m == CHOOSE x \in S : \A y \in S : x <= y
         IN  <<m>> \o SortedSeq(S \ {m})

SeqToSet(s) == {s[k] : k \in 1..Len(s)}

VARIABLES
    servers,    \* servers.json: identity -> configuration
    processes,  \* the `processes` map: identity -> pid of the last launch (0: no entry)
    procs,      \* the operating system's process table
    req,        \* the requests in flight, one per slot
    log         \* responses the scripted client has received, oldest first

vars == <<servers, processes, procs, req, log>>

Slots == {1, 2}

(***************************************************************************)
(* Probes and signals                                                      *)
(***************************************************************************)
Occupants(port) ==
    {p \in Pids : procs[p].state = "alive" /\ port \in procs[p].holds}

\* checkPort: `lsof -i :port -t`; a failed query and an empty answer both
\* resolve to running:false
checkPort(port, fail) ==
    LET pids == SortedSeq(Occupants(port))
    IN  IF fail \/ pids = <<>>
        THEN [running |-> FALSE, pid |-> 0, pids |-> <<>>]
        ELSE [running |-> TRUE, pid |-> pids[1], pids |-> pids]

\* the outcome of exec(`kill pid`)
KillOutcome(pid) ==
    IF procs[pid].state # "alive" THEN "No such process"
    ELSE IF procs[pid].denied THEN "Operation not permitted"
    ELSE "delivered"

\* the callback without the `No such process` exemption
KillRejects_Any(outcome) == outcome # "delivered"

\* the callback of lines 93-99: does the promise reject?
KillRejects(outcome) == outcome \notin {"delivered", "No such process"}

Signal(pid) ==
    IF KillOutcome(pid) = "delivered"
    THEN [procs EXCEPT ![pid].signalled = TRUE]
    ELSE procs

(***************************************************************************)
(* Responses                                                               *)
(***************************************************************************)
NoErr == [type |-> "none", port |-> 0, pids |-> <<>>, pid |-> 0, path |-> ""]
NoMsg == [text |-> "", port |-> 0]
NoRes ==
    [http |-> 0, success |-> FALSE, status |-> "", error |-> NoErr,
     message |-> NoMsg, pid |-> 0, port |-> 0, ports |-> <<>>,
     replacedPorts |-> <<>>, stoppedPorts |-> <<>>]
Failure(http, err) == [NoRes EXCEPT !.http = http, !.error = err]

ConfigurationMissing == [NoErr EXCEPT !.type = "ConfigurationMissing"]
NoPortsConfigured == [NoErr EXCEPT !.type = "NoPortsConfigured"]
NotRunning == [NoErr EXCEPT !.type = "NotRunning"]
DirectoryNotFound(path) == [NoErr EXCEPT !.type = "DirectoryNotFound", !.path = path]
\* `Unable to free port ${port}. Still in use by PID(s): ...`
PortStillBound(port, pids) ==
    [NoErr EXCEPT !.type = "PortStillBound", !.port = port, !.pids = pids]
\* the message of a rejected `kill pid`
KillFailed(pid) == [NoErr EXCEPT !.type = "KillFailed", !.pid = pid]
\* `Failed to stop server: ${killError.message}`
StopFailed(pid) == [NoErr EXCEPT !.type = "StopFailed", !.pid = pid]

(***************************************************************************)
(* Requests                                                                *)
(***************************************************************************)
NoCheck == [running |-> FALSE, pid |-> 0, pids |-> <<>>]
\* an element of portChecks; settled: the promise of this port has resolved
Pending(port) ==
    [port |-> port, running |-> FALSE, pid |-> 0, pids |-> <<>>, settled |-> FALSE]
Settled(port, check) ==
    [port |-> port, running |-> check.running, pid |-> check.pid,
     pids |-> check.pids, settled |-> TRUE]

\* what ensurePortFree returns
NoResult == [port |-> 0, freed |-> FALSE, pids |-> <<>>]
ReclaimResult(port, freed, pids) == [port |-> port, freed |-> freed, pids |-> pids]

\* pc: where the handler is suspended; i, j: the loop positions;
\* nProbe, nDelay, sent, nLaunch: what the request has done so far;
\* gone: the pids whose `kill` answered `No such process`;
\* seen: what ensurePortFree's latest inspection of each port found
IdleReq ==
    [op |-> "none", url |-> "", pc |-> "idle", config |-> NoConfig,
     ports |-> <<>>, i |-> 0, j |-> 0,
     initial |-> NoCheck, afterKill |-> NoCheck, freed |-> <<>>,
     result |-> NoResult, checks |-> <<>>, res |-> NoRes,
     nProbe |-> 0, nDelay |-> 0, sent |-> <<>>, nLaunch |-> 0, seen |-> <<>>,
     gone |-> <<>>]

Respond(q, res) == [q EXCEPT !.pc = "done", !.res = res]

Entry(q) == [op |-> q.op, url |-> q.url, res |-> q.res]

\* install the request's next state; a finished request's response reaches
\* the scripted client (window = 0: no client script)
Commit(r, q, window) ==
    /\ req' = [req EXCEPT ![r] = q]
    /\ log' = IF q.pc = "done" /\ window > 0 THEN Append(log, Entry(q)) ELSE log

\* CanBegin behind a lock that one request holds from its first step to its
\* response
CanBegin_Exclusive(r, window) ==
    /\ \A o \in Slots : req[o].pc \in {"idle", "done"}
    /\ window > 0 => Len(log) < window

CanBegin(r, window) ==
    /\ req[r].pc \in {"idle", "done"}
    /\ window > 0 => Len(log) < window

\* Load without the `if (!config)` test: reading a field of undefined throws,
\* and the handler's catch answers
Load_NoConfigCheck(op, url, missing, noPorts, next) ==
    LET config == servers[url]
        ports == getConfigPorts(config)
        q == [IdleReq EXCEPT !.op = op, !.url = url]
    IN  IF ~config.defined
        THEN Respond(q, [NoRes EXCEPT !.http = IF op = "status" THEN 200 ELSE 500,
                                      !.status = IF op = "status" THEN "unknown" ELSE ""])
        ELSE IF Len(ports) = 0 THEN Respond(q, noPorts)
        ELSE [q EXCEPT !.config = config, !.ports = ports, !.pc = next, !.i = 1,
                       !.seen = [k \in 1..Len(ports) |-> "none"],
                       !.checks = IF next = "probe"
                                  THEN [k \in 1..Len(ports) |-> Pending(ports[k])]
                                  ELSE <<>>]

\* Load without the `if (!ports.length)` test: the handler goes on with no
\* port
Load_NoPortsCheck(op, url, missing, noPorts, next) ==
    LET config == servers[url]
        ports == getConfigPorts(config)
        q == [IdleReq EXCEPT !.op = op, !.url = url]
    IN  IF ~config.defined THEN Respond(q, missing)
        ELSE IF Len(ports) = 0
        THEN Respond(q, IF op = "stop" THEN Failure(200, NotRunning)
                        ELSE IF op = "status" THEN noPorts
                        ELSE Failure(500, NoErr))
        ELSE [q EXCEPT !.config = config, !.ports = ports, !.pc = next, !.i = 1,
                       !.seen = [k \in 1..Len(ports) |-> "none"],
                       !.checks = IF next = "probe"
                                  THEN [k \in 1..Len(ports) |-> Pending(ports[k])]
                                  ELSE <<>>]

\* lines 251-268, 315-331, 391-407 (and 200-210 for status): load the
\* configuration and determine the ports
Load(op, url, missing, noPorts, next) ==
    LET config == servers[url]
        ports == getConfigPorts(config)
        q == [IdleReq EXCEPT !.op = op, !.url = url]
    IN  IF ~config.defined THEN Respond(q, missing)
        ELSE IF Len(ports) = 0 THEN Respond(q, noPorts)
        ELSE [q EXCEPT !.config = config, !.ports = ports, !.pc = next, !.i = 1,
                       !.seen = [k \in 1..Len(ports) |-> "none"],
                       !.checks = IF next = "probe"
                                  THEN [k \in 1..Len(ports) |-> Pending(ports[k])]
                                  ELSE <<>>]

(***************************************************************************)
(* GET /api/status                                                         *)
(***************************************************************************)
Unconfigured(text) ==
    [NoRes EXCEPT !.http = 200, !.status = "unconfigured", !.message.text = text]

AllSettled(checks) == \A k \in 1..Len(checks) : checks[k].settled

\* StatusResponse with `find((check) => check)`: any check counts as running
StatusResponse_AnyCheck(ports, portChecks) ==
    [NoRes EXCEPT !.http = 200, !.status = "running",
                  !.pid = portChecks[1].pid, !.port = portChecks[1].port,
                  !.ports = portChecks]

\* StatusResponse that names the first configured port whichever port runs
StatusResponse_FirstConfigured(ports, portChecks) ==
    IF \E k \in 1..Len(portChecks) : portChecks[k].running
    THEN [NoRes EXCEPT !.http = 200, !.status = "running",
                       !.pid = portChecks[1].pid, !.port = ports[1],
                       !.ports = portChecks]
    ELSE [NoRes EXCEPT !.http = 200, !.status = "stopped",
                       !.port = ports[1], !.ports = portChecks]

\* lines 221-236
StatusResponse(ports, portChecks) ==
    LET found == {k \in 1..Len(portChecks) : portChecks[k].running}
    IN  IF found # {}
        THEN LET runningPort == portChecks[CHOOSE k \in found : \A m \in found : k <= m]
             IN  [NoRes EXCEPT !.http = 200, !.status = "running",
                               !.pid = runningPort.pid, !.port = runningPort.port,
                               !.ports = portChecks]
        ELSE [NoRes EXCEPT !.http = 200, !.status = "stopped",
                           !.port = ports[1], !.ports = portChecks]

StatusBegin(r, url, window) ==
    /\ CanBegin(r, window)
    /\ Commit(r, Load("status", url, Unconfigured("Server not configured"),
                      Unconfigured("No ports configured for server"), "probe"),
              window)
    /\ UNCHANGED <<servers, processes, procs>>

\* one of the concurrent checkPort promises of lines 211-219 resolves
StatusProbe(r, k, fail, window) ==
    LET q == req[r] IN
    /\ q.op = "status" /\ q.pc = "probe"
    /\ k \in 1..Len(q.checks) /\ ~q.checks[k].settled
    /\ LET checks == [q.checks EXCEPT ![k] = Settled(q.ports[k], checkPort(q.ports[k], fail))]
           q1 == [q EXCEPT !.checks = checks, !.nProbe = @ + 1]
       IN  Commit(r, IF AllSettled(checks)
                     THEN Respond(q1, StatusResponse(q.ports, checks))
                     ELSE q1, window)
    /\ UNCHANGED <<servers, processes, procs>>

(***************************************************************************)
(* POST /api/start and POST /api/restart                                   *)
(***************************************************************************)
\* AfterReclaim without the fs.existsSync test
AfterReclaim_NoDirCheck(q) == [q EXCEPT !.pc = "launch"]

\* lines 279-300 and 418-438, up to the call of launchServer
AfterReclaim(q) ==
    IF q.config.directory \notin ExistingDirs
    THEN Respond(q, Failure(400, DirectoryNotFound(q.config.directory)))
    ELSE [q EXCEPT !.pc = "launch"]

\* ensurePortsFree that never records a freed port
ensurePortsFree_NoPush(q) ==
    IF q.i < Len(q.ports)
    THEN [q EXCEPT !.i = @ + 1, !.pc = "inspect"]
    ELSE AfterReclaim(q)

\* ensurePortsFree that pushes the result of every port, freed or not
ensurePortsFree_PushAll(q) ==
    LET q1 == [q EXCEPT !.freed = Append(@, [port |-> q.result.port,
                                             pids |-> q.result.pids])]
    IN  IF q.i < Len(q.ports)
        THEN [q1 EXCEPT !.i = @ + 1, !.pc = "inspect"]
        ELSE AfterReclaim(q1)

\* the loop of ensurePortsFree, lines 124-135, once ensurePortFree has
\* returned q.result for port q.i
ensurePortsFree(q) ==
    LET q1 == IF q.result.freed
              THEN [q EXCEPT !.freed = Append(@, [port |-> q.result.port,
                                                  pids |-> q.result.pids])]
              ELSE q
    IN  IF q.i < Len(q.ports)
        THEN [q1 EXCEPT !.i = @ + 1, !.pc = "inspect"]
        ELSE AfterReclaim(q1)

\* ensurePortFreeInitial reporting a free port as freed
ensurePortFreeInitial_Freed(q, initial) ==
    LET q1 == [q EXCEPT !.initial = initial, !.afterKill = NoCheck, !.nProbe = @ + 1,
                        !.seen[q.i] = IF initial.running THEN "occupied" ELSE "free"]
    IN  IF ~initial.running
        THEN ensurePortsFree([q1 EXCEPT !.result = ReclaimResult(q.ports[q.i], TRUE, <<>>)])
        ELSE [q1 EXCEPT !.pc = "kill", !.j = 1]

\* ensurePortFree, lines 105-108: the initial inspection has resolved
ensurePortFreeInitial(q, initial) ==
    LET q1 == [q EXCEPT !.initial = initial, !.afterKill = NoCheck, !.nProbe = @ + 1,
                        !.seen[q.i] = IF initial.running THEN "occupied" ELSE "free"]
    IN  IF ~initial.running
        THEN ensurePortsFree([q1 EXCEPT !.result = ReclaimResult(q.ports[q.i], FALSE, <<>>)])
        ELSE [q1 EXCEPT !.pc = "kill", !.j = 1]

\* ensurePortFreeAfterKill without the throw of line 115
ensurePortFreeAfterKill_NoThrow(q, afterKill) ==
    ensurePortsFree([q EXCEPT !.afterKill = afterKill, !.nProbe = @ + 1,
                              !.seen[q.i] = IF afterKill.running THEN "occupied" ELSE "free",
                              !.result = ReclaimResult(q.ports[q.i], TRUE, q.initial.pids)])

\* ensurePortFreeAfterKill returning the pids of the second inspection
ensurePortFreeAfterKill_AfterPids(q, afterKill) ==
    LET q1 == [q EXCEPT !.afterKill = afterKill, !.nProbe = @ + 1,
                        !.seen[q.i] = IF afterKill.running THEN "occupied" ELSE "free"]
    IN  IF afterKill.running
        THEN Respond(q1, Failure(500, PortStillBound(q.ports[q.i], afterKill.pids)))
        ELSE ensurePortsFree([q1 EXCEPT !.result =
                                  ReclaimResult(q.ports[q.i], TRUE, afterKill.pids)])

\* ensurePortFreeAfterKill that goes on to the remaining ports before it
\* reports a port it could not free
ensurePortFreeAfterKill_Deferred(q, afterKill) ==
    LET q1 == [q EXCEPT !.afterKill = afterKill, !.nProbe = @ + 1,
                        !.seen[q.i] = IF afterKill.running THEN "occupied" ELSE "free"]
    IN  IF afterKill.running
        THEN IF q.i < Len(q.ports)
             THEN [q1 EXCEPT !.i = @ + 1, !.pc = "inspect"]
             ELSE Respond(q1, Failure(500, PortStillBound(q.ports[q.i], afterKill.pids)))
        ELSE ensurePortsFree([q1 EXCEPT !.result =
                                  ReclaimResult(q.ports[q.i], TRUE, q.initial.pids)])

\* ensurePortFree, lines 113-118: the inspection after the kill has resolved
ensurePortFreeAfterKill(q, afterKill) ==
    LET q1 == [q EXCEPT !.afterKill = afterKill, !.nProbe = @ + 1,
                        !.seen[q.i] = IF afterKill.running THEN "occupied" ELSE "free"]
    IN  IF afterKill.running
        THEN Respond(q1, Failure(500, PortStillBound(q.ports[q.i], afterKill.pids)))
        ELSE ensurePortsFree([q1 EXCEPT !.result =
                                  ReclaimResult(q.ports[q.i], TRUE, q.initial.pids)])

\* StartResponse whose restart always says `restarted`
StartResponse_AlwaysRestarted(q, pid) ==
    [NoRes EXCEPT !.http = 200, !.success = TRUE, !.pid = pid,
                  !.replacedPorts = q.freed,
                  !.message = [text |-> IF q.op = "start" THEN "starting"
                                        ELSE "restarted",
                               port |-> q.ports[1]]]

\* the success response of lines 289-300 and 426-438
StartResponse(q, pid) ==
    [NoRes EXCEPT !.http = 200, !.success = TRUE, !.pid = pid,
                  !.replacedPorts = q.freed,
                  !.message = [text |-> IF q.op = "start" THEN "starting"
                                        ELSE IF Len(q.freed) > 0 THEN "restarted"
                                        ELSE "started",
                               port |-> q.ports[1]]]

\* launchServer run on the configuration in servers.json at the time of the
\* launch
launchServer_Reloaded(config, url, ports) ==
    [FreeProc EXCEPT !.state = "alive", !.wants = SeqToSet(ports), !.launched = TRUE,
                     !.cmd = servers[url].command, !.cwd = servers[url].directory]

\* the process spawn() creates, lines 139-145: the command of the
\* configuration passed in, run in its directory, detached, and yet to bind
\* the ports
launchServer(config, url, ports) ==
    [FreeProc EXCEPT !.state = "alive", !.wants = SeqToSet(ports), !.launched = TRUE,
                     !.cmd = config.command, !.cwd = config.directory]

FreshPids == {p \in LaunchPids : procs[p].state = "free"}
FreshPid == CHOOSE p \in FreshPids : \A o \in FreshPids : p <= o

\* the rest of the handler once the awaited probe has resolved: either the
\* next await, a failure response, or launchServer and the success response
Resume(r, q, window) ==
    IF q.pc = "launch"
    THEN /\ FreshPids # {}
         /\ procs' = [procs EXCEPT ![FreshPid] = launchServer(q.config, q.url, q.ports)]
         /\ processes' = [processes EXCEPT ![q.url] = FreshPid]
         /\ Commit(r, Respond([q EXCEPT !.nLaunch = @ + 1], StartResponse(q, FreshPid)),
                   window)
    ELSE /\ UNCHANGED <<procs, processes>>
         /\ Commit(r, q, window)

StartBegin(r, url, window) ==
    /\ CanBegin(r, window)
    /\ Commit(r, Load("start", url, Failure(400, ConfigurationMissing),
                      Failure(400, NoPortsConfigured), "inspect"), window)
    /\ UNCHANGED <<servers, processes, procs>>

RestartBegin(r, url, window) ==
    /\ CanBegin(r, window)
    /\ Commit(r, Load("restart", url, Failure(400, ConfigurationMissing),
                      Failure(400, NoPortsConfigured), "inspect"), window)
    /\ UNCHANGED <<servers, processes, procs>>

StartInspect(r, fail, window) ==
    LET q == req[r] IN
    /\ q.op \in {"start", "restart"} /\ q.pc = "inspect"
    /\ Resume(r, ensurePortFreeInitial(q, checkPort(q.ports[q.i], fail)), window)
    /\ UNCHANGED servers

\* killProcesses whose rejection no handler catches: the request is left
\* without a response
killProcesses_Uncaught(q, pids, rejected, next) ==
    LET pid == pids[q.j]
        q1 == [q EXCEPT !.sent = Append(@, pid),
                        !.gone = IF KillOutcome(pid) = "No such process"
                                 THEN Append(@, pid) ELSE @]
    IN  IF KillRejects(KillOutcome(pid)) THEN [q1 EXCEPT !.pc = "raised"]
        ELSE IF q.j < Len(pids) THEN [q1 EXCEPT !.j = @ + 1]
        ELSE [q1 EXCEPT !.pc = next]

\* killProcesses, lines 91-101: one `kill pid` has completed
killProcesses(q, pids, rejected, next) ==
    LET pid == pids[q.j]
        q1 == [q EXCEPT !.sent = Append(@, pid),
                        !.gone = IF KillOutcome(pid) = "No such process"
                                 THEN Append(@, pid) ELSE @]
    IN  IF KillRejects(KillOutcome(pid)) THEN Respond(q1, rejected)
        ELSE IF q.j < Len(pids) THEN [q1 EXCEPT !.j = @ + 1]
        ELSE [q1 EXCEPT !.pc = next]

StartKill(r, window) ==
    LET q == req[r] IN
    /\ q.op \in {"start", "restart"} /\ q.pc = "kill"
    /\ procs' = Signal(q.initial.pids[q.j])
    /\ Commit(r, killProcesses(q, q.initial.pids,
                               Failure(500, KillFailed(q.initial.pids[q.j])), "settle"),
              window)
    /\ UNCHANGED <<servers, processes>>

\* delay(400) of line 111 has elapsed
StartSettle(r) ==
    LET q == req[r] IN
    /\ q.op \in {"start", "restart"} /\ q.pc = "settle"
    /\ req' = [req EXCEPT ![r] = [q EXCEPT !.nDelay = @ + 1, !.pc = "recheck"]]
    /\ UNCHANGED <<servers, processes, procs, log>>

StartRecheck(r, fail, window) ==
    LET q == req[r] IN
    /\ q.op \in {"start", "restart"} /\ q.pc = "recheck"
    /\ Resume(r, ensurePortFreeAfterKill(q, checkPort(q.ports[q.i], fail)), window)
    /\ UNCHANGED servers

(***************************************************************************)
(* POST /api/stop                                                          *)
(***************************************************************************)
\* line 342
RunningPorts(checks) == SelectSeq(checks, LAMBDA c : c.running)

\* lines 361-370
StopResponse(runningPorts) ==
    [NoRes EXCEPT !.http = 200, !.success = TRUE,
                  !.message = [text |-> "stopped", port |-> 0],
                  !.stoppedPorts = [k \in 1..Len(runningPorts) |->
                                      [port |-> runningPorts[k].port,
                                       pids |-> runningPorts[k].pids]]]

\* StopAfterProbes that trusts the process map: without a record of a launch
\* the server counts as not running
StopAfterProbes_NeedsRecord(q) ==
    IF Len(RunningPorts(q.checks)) = 0 \/ processes[q.url] = 0
    THEN Respond(q, Failure(200, NotRunning))
    ELSE [q EXCEPT !.pc = "kill", !.i = 1, !.j = 1]

\* StopAfterProbes without the `if (!runningPorts.length)` test
StopAfterProbes_NoCheck(q) ==
    IF Len(RunningPorts(q.checks)) = 0
    THEN [q EXCEPT !.pc = "final"]
    ELSE [q EXCEPT !.pc = "kill", !.i = 1, !.j = 1]

\* lines 342-349: all probes have resolved
StopAfterProbes(q) ==
    IF Len(RunningPorts(q.checks)) = 0
    THEN Respond(q, Failure(200, NotRunning))
    ELSE [q EXCEPT !.pc = "kill", !.i = 1, !.j = 1]

StopBegin(r, url, window) ==
    /\ CanBegin(r, window)
    /\ Commit(r, Load("stop", url, Failure(400, ConfigurationMissing),
                      Failure(400, NoPortsConfigured), "probe"), window)
    /\ UNCHANGED <<servers, processes, procs>>

\* one of the concurrent checkPort promises of lines 332-340 resolves
StopProbe(r, k, fail, window) ==
    LET q == req[r] IN
    /\ q.op = "stop" /\ q.pc = "probe"
    /\ k \in 1..Len(q.checks) /\ ~q.checks[k].settled
    /\ LET checks == [q.checks EXCEPT ![k] = Settled(q.ports[k], checkPort(q.ports[k], fail))]
           q1 == [q EXCEPT !.checks = checks, !.nProbe = @ + 1]
       IN  Commit(r, IF AllSettled(checks) THEN StopAfterProbes(q1) ELSE q1, window)
    /\ UNCHANGED <<servers, processes, procs>>

\* line 354: one `kill pid` for the running port q.i has completed
StopKill(r, window) ==
    LET q == req[r]
        pids == RunningPorts(q.checks)[q.i].pids
    IN
    /\ q.op = "stop" /\ q.pc = "kill"
    /\ procs' = Signal(pids[q.j])
    /\ Commit(r, killProcesses(q, pids, Failure(200, StopFailed(pids[q.j])), "pause"),
              window)
    /\ UNCHANGED <<servers, processes>>

\* line 355: delay(200) inside the loop has elapsed
StopPause(r) ==
    LET q == req[r] IN
    /\ q.op = "stop" /\ q.pc = "pause"
    /\ req' = [req EXCEPT ![r] =
                 IF q.i < Len(RunningPorts(q.checks))
                 THEN [q EXCEPT !.nDelay = @ + 1, !.i = @ + 1, !.j = 1, !.pc = "kill"]
                 ELSE [q EXCEPT !.nDelay = @ + 1, !.pc = "final"]]
    /\ UNCHANGED <<servers, processes, procs, log>>

\* StopFinal without processes.delete(url)
StopFinal_KeepsRecord(r, window) ==
    LET q == req[r] IN
    /\ q.op = "stop" /\ q.pc = "final"
    /\ Commit(r, Respond([q EXCEPT !.nDelay = @ + 1],
                         StopResponse(RunningPorts(q.checks))), window)
    /\ UNCHANGED <<servers, procs, processes>>

\* lines 357-370: delay(200) after the loop has elapsed
StopFinal(r, window) ==
    LET q == req[r] IN
    /\ q.op = "stop" /\ q.pc = "final"
    /\ processes' = [processes EXCEPT ![q.url] = 0]
    /\ Commit(r, Respond([q EXCEPT !.nDelay = @ + 1],
                         StopResponse(RunningPorts(q.checks))), window)
    /\ UNCHANGED <<servers, procs>>

(***************************************************************************)
(* POST /api/server-config                                                 *)
(***************************************************************************)
\* !value of line 177 for a port field
Falsy(v) == v.t \in {"undefined", "null"} \/ (v.t = "number" /\ v.n = 0)

\* GET /api/server-config, lines 158-171
getServerConfig(url) ==
    IF ~servers[url].defined
    THEN [found |-> FALSE, config |-> NoConfig]
    ELSE [found |-> TRUE, config |-> servers[url]]

\* lines 177-182
MissingFields == [NoErr EXCEPT !.type = "MissingFields"]
Invalid(directory, command, port) == directory = "" \/ command = "" \/ Falsy(port)

\* saveEntry that starts from an empty object instead of the loaded file
saveEntry_Alone(store, url, directory, command, port) ==
    [u \in Ids |-> IF u = url
                   THEN [defined |-> TRUE, directory |-> directory, command |-> command,
                         port |-> port, ports |-> NoArr, additionalPorts |-> NoArr]
                   ELSE NoConfig]

\* lines 184-186: what saveServers writes, given what loadServers returned
saveEntry(store, url, directory, command, port) ==
    [store EXCEPT ![url] =
        [defined |-> TRUE, directory |-> directory, command |-> command,
         port |-> port, ports |-> NoArr, additionalPorts |-> NoArr]]

\* Save that updates the three fields of the entry it finds
Save_Merge(url, directory, command, port) ==
    /\ servers' =
         IF directory = "" \/ command = "" \/ Falsy(port)
         THEN servers
         ELSE [servers EXCEPT ![url].defined = TRUE, ![url].directory = directory,
                              ![url].command = command, ![url].port = port]
    /\ UNCHANGED <<processes, procs, req, log>>

\* lines 174-189: validate, load, replace the entry, write servers.json
Save(url, directory, command, port) ==
    /\ servers' =
         IF Invalid(directory, command, port)
         THEN servers
         ELSE saveEntry(servers, url, directory, command, port)
    /\ UNCHANGED <<processes, procs, req, log>>

\* a POST /api/server-config has reached the supervisor and waits for the
\* event loop to run its handler
SaveArrive(r, url, directory, command, port, window) ==
    /\ CanBegin(r, window)
    /\ req' = [req EXCEPT ![r] =
                 [IdleReq EXCEPT !.op = "save", !.url = url, !.pc = "received",
                                 !.config = [defined |-> TRUE, directory |-> directory,
                                             command |-> command, port |-> port,
                                             ports |-> NoArr, additionalPorts |-> NoArr]]]
    /\ UNCHANGED <<servers, processes, procs, log>>

\* lines 174-189, run to completion by the event loop: nothing is awaited.
\* The client script keeps the accepted saves in the order they were handled,
\* each with the places at which the other requests were waiting at that
\* moment.
SaveHandle(r) ==
    LET q == req[r]
        body == q.config
        waiting == {req[o].pc : o \in Slots \ {r}} \ {"idle", "done"}
    IN
    /\ q.op = "save" /\ q.pc = "received"
    /\ IF Invalid(body.directory, body.command, body.port)
       THEN /\ req' = [req EXCEPT ![r] = Respond(q, Failure(400, MissingFields))]
            /\ UNCHANGED <<servers, log>>
       ELSE /\ servers' = saveEntry(servers, q.url, body.directory, body.command, body.port)
            /\ req' = [req EXCEPT ![r] =
                         Respond(q, [NoRes EXCEPT !.http = 200, !.success = TRUE,
                                                  !.message.text = "saved"])]
            /\ log' = Append(log, [op |-> "save", url |-> q.url, config |-> body,
                                   waiting |-> waiting])
    /\ UNCHANGED <<processes, procs>>

(***************************************************************************)
(* The operating system                                                    *)
(***************************************************************************)
\* a process that received SIGTERM exits, releasing its ports
ProcExit(p) ==
    /\ procs[p].state = "alive" /\ procs[p].signalled
    /\ procs' = [procs EXCEPT ![p] = DeadProc]
    /\ UNCHANGED <<servers, processes, req, log>>

\* a launched command starts listening: the spawned shell itself
\* (viaChild = FALSE) or a process it has started
ProcBind(p, viaChild) ==
    /\ procs[p].state = "alive" /\ procs[p].wants # {}
    /\ \A port \in procs[p].wants : Occupants(port) = {}
    /\ IF viaChild
       THEN /\ FreshPids # {}
            /\ procs' = [procs EXCEPT ![p].wants = {},
                                      ![FreshPid] = [FreeProc EXCEPT !.state = "alive",
                                                                     !.holds = procs[p].wants,
                                                                     !.launched = TRUE]]
       ELSE procs' = [procs EXCEPT ![p].holds = procs[p].wants, ![p].wants = {}]
    /\ UNCHANGED <<servers, processes, req, log>>

(***************************************************************************)
(* Specifications                                                          *)
(***************************************************************************)
\* servers.json as found at start-up: written by earlier saves or by hand
InitStores ==
    {[u \in Ids |-> IF u = "svc-a" THEN a ELSE b] :
        a \in {NoConfig, CfgSingle, CfgMulti, CfgNoDir, CfgNoPorts},
        b \in {NoConfig, CfgOther}}

\* the processes listening before the run: none, one, or two
InitProcs ==
    {[p \in Pids |-> IF p \in DOMAIN e THEN e[p] ELSE FreeProc] :
        e \in UNION {[1..n -> {ExtProc(S, d) : S \in (SUBSET Ports) \ {{}}, d \in BOOLEAN}] :
                        n \in 0..Cardinality(ExtPids)}}

Init ==
    /\ servers \in InitStores
    /\ processes = [u \in Ids |-> 0]
    /\ procs \in InitProcs
    /\ req = [r \in Slots |-> IdleReq]
    /\ log = <<>>

Handler(r, urls, window) ==
    \/ \E url \in urls : StatusBegin(r, url, window)
    \/ \E url \in urls : StartBegin(r, url, window)
    \/ \E url \in urls : StopBegin(r, url, window)
    \/ \E url \in urls : RestartBegin(r, url, window)
    \/ \E k \in 1..2, fail \in BOOLEAN : StatusProbe(r, k, fail, window)
    \/ \E k \in 1..2, fail \in BOOLEAN : StopProbe(r, k, fail, window)
    \/ \E fail \in BOOLEAN : StartInspect(r, fail, window)
    \/ StartKill(r, window)
    \/ StartSettle(r)
    \/ \E fail \in BOOLEAN : StartRecheck(r, fail, window)
    \/ StopKill(r, window)
    \/ StopPause(r)
    \/ StopFinal(r, window)

System ==
    \/ \E p \in Pids : ProcExit(p)
    \/ \E p \in Pids, viaChild \in BOOLEAN : ProcBind(p, viaChild)

\* one request at a time
Next ==
    \/ Handler(1, Ids, 0)
    \/ System

Spec == Init /\ [][Next]_vars

\* a client that issues up to MaxOps requests for svc-a, each after the
\* response to the one before, and keeps the responses
InitScript ==
    /\ Init
    /\ servers["svc-a"] = CfgSingle
    /\ servers["svc-b"] = NoConfig
    /\ procs[2].state = "free"
    /\ procs[1].state = "alive" => procs[1].holds = {PortA}

NextScript ==
    \/ Handler(1, {"svc-a"}, MaxOps)
    \/ System

SpecScript == InitScript /\ [][NextScript]_vars

\* two clients that start svc-a, their requests in flight together
StartHandler(r) ==
    \/ StartBegin(r, "svc-a", 0)
    \/ \E fail \in BOOLEAN : StartInspect(r, fail, 0)
    \/ StartKill(r, 0)
    \/ StartSettle(r)
    \/ \E fail \in BOOLEAN : StartRecheck(r, fail, 0)

NextRace ==
    \/ \E r \in Slots : StartHandler(r)
    \/ System

SpecRace == InitScript /\ [][NextRace]_vars

\* a client polls the status, every lsof query answering, while another
\* client's stop is in flight
StopHandler(r) ==
    \/ \E url \in Ids : StopBegin(r, url, 0)
    \/ \E k \in 1..2, fail \in BOOLEAN : StopProbe(r, k, fail, 0)
    \/ StopKill(r, 0)
    \/ StopPause(r)
    \/ StopFinal(r, 0)

NextStatus ==
    \/ \E url \in Ids : StatusBegin(1, url, 0)
    \/ \E k \in 1..2 : StatusProbe(1, k, FALSE, 0)
    \/ StopHandler(2)
    \/ \E p \in Pids : ProcExit(p)

SpecStatus == Init /\ [][NextStatus]_vars

\* what a client may submit to POST /api/server-config
SaveDirs == {GoodDir, MissingDir, ""}
SaveCmds == {Cmd, ""}
SavePorts == {Undef, Num(0), Num(PortA), Num(PortB), NumStr(PortA), BadStr}

\* the configuration store: saves, and the handlers' loads
InitStore ==
    /\ servers \in InitStores
    /\ processes = [u \in Ids |-> 0]
    /\ procs = [p \in Pids |-> FreeProc]
    /\ req = [r \in Slots |-> IdleReq]
    /\ log = <<>>

NextStore ==
    \/ \E url \in Ids, directory \in SaveDirs, command \in SaveCmds, port \in SavePorts :
           Save(url, directory, command, port)
    \/ \E url \in Ids : StatusBegin(1, url, 0)

SpecStore == InitStore /\ [][NextStore]_vars

\* two clients that save configurations, up to MaxOps accepted saves in all,
\* their requests in flight together
NextSaves ==
    \/ \E r \in Slots, url \in Ids, port \in {Num(PortA), NumStr(PortB), Num(0)} :
           SaveArrive(r, url, GoodDir, Cmd, port, MaxOps)
    \/ \E r \in Slots : SaveHandle(r)

SpecSaves == InitStore /\ [][NextSaves]_vars

\* a client starts, stops and restarts svc-a while another saves up to
\* MaxSaves configurations for it
MaxSaves == 1

NextSnapshot ==
    \/ StartBegin(1, "svc-a", 0)
    \/ RestartBegin(1, "svc-a", 0)
    \/ StopBegin(1, "svc-a", 0)
    \/ \E fail \in BOOLEAN : StartInspect(1, fail, 0)
    \/ StartKill(1, 0)
    \/ StartSettle(1)
    \/ \E fail \in BOOLEAN : StartRecheck(1, fail, 0)
    \/ \E k \in 1..2, fail \in BOOLEAN : StopProbe(1, k, fail, 0)
    \/ StopKill(1, 0)
    \/ StopPause(1)
    \/ StopFinal(1, 0)
    \/ System
    \/ \E command \in {Cmd, OtherCmd} :
           SaveArrive(2, "svc-a", MissingDir, command, Num(PortB), MaxSaves)
    \/ SaveHandle(2)

SpecSnapshot == InitScript /\ [][NextSnapshot]_vars

\* port fields as a servers.json written by hand may hold them
MaxArr == 2
PortValues ==
    {Undef, Num(PortA), NumStr(PortB), BadStr, Num(0), Num(-1), JsonTrue}
PortArrays ==
    {NoArr} \cup {Arr(s) : s \in UNION {[1..n -> PortValues] : n \in 0..MaxArr}}

\* the handlers' first step on any such configuration: getConfigPorts
InitPorts ==
    /\ \E v \in PortValues, a \in PortArrays, b \in PortArrays :
           servers = [u \in Ids |-> IF u = "svc-a" THEN Config(GoodDir, v, a, b)
                                    ELSE NoConfig]
    /\ processes = [u \in Ids |-> 0]
    /\ procs = [p \in Pids |-> FreeProc]
    /\ req = [r \in Slots |-> IdleReq]
    /\ log = <<>>

NextPorts ==
    \/ StatusBegin(1, "svc-a", 0)
    \/ StopBegin(1, "svc-a", 0)

SpecPorts == InitPorts /\ [][NextPorts]_vars

(***************************************************************************)
(* Properties                                                              *)
(***************************************************************************)
\* the step is one of request r's handler
Acts(r) == req'[r] # req[r]
Reclaims(q) == q.op \in {"start", "restart"}
\* the port ensurePortFree is working on
Port(q) == q.ports[q.i]

\* C1: when the inspection after the kills and the settle delay still finds
\* the port occupied, the start or restart ends there with status 500 and
\* the PortStillBound error naming the port and the pids now on it; it has
\* launched nothing and the step leaves the process map and the operating
\* system's processes as they were.
C1_PortStillBoundNoLaunch ==
    [][\A r \in Slots :
         (Acts(r) /\ Reclaims(req[r]) /\ req[r].pc = "recheck"
          /\ req'[r].afterKill.running)
         => /\ req'[r].pc = "done"
            /\ req'[r].res = Failure(500, PortStillBound(Port(req[r]),
                                          SortedSeq(Occupants(Port(req[r])))))
            /\ req[r].nDelay >= 1 /\ req[r].sent # <<>>
            /\ req'[r].nLaunch = 0
            /\ processes' = processes /\ procs' = procs]_vars

C1_Witness ==
    \E r \in Slots :
        /\ req[r].op = "restart" /\ req[r].pc = "done"
        /\ req[r].afterKill.running
        /\ req[r].res.error.type = "PortStillBound"
        /\ req[r].res.error.port = PortA /\ req[r].res.error.pids = <<1, 2>>

\* C2 as stated: a start or restart on a configuration whose directory does
\* not exist always ends with DirectoryNotFound naming the path.
C2_AlwaysDirectoryNotFound ==
    \A r \in Slots :
        (Reclaims(req[r]) /\ req[r].pc = "done" /\ servers[req[r].url].defined
         /\ servers[req[r].url].directory \notin ExistingDirs)
        => /\ req[r].res = Failure(400, DirectoryNotFound(servers[req[r].url].directory))
           /\ req[r].nLaunch = 0

\* C2 amended: a start or restart on a configuration with ports whose directory
\* does not exist never launches and never writes the process map; it ends
\* with a failure, which is DirectoryNotFound naming the path exactly when the
\* reclaim of every port succeeded (also when it had to terminate occupants),
\* PortStillBound when the re-inspection found a port occupied, and else the
\* error of a refused signal.
C2_MissingDirectoryNoLaunch ==
    [][\A r \in Slots :
         (Acts(r) /\ Reclaims(req[r]) /\ req[r].pc \notin {"idle", "done"}
          /\ req[r].config.directory \notin ExistingDirs)
         => /\ processes' = processes
            /\ req'[r].nLaunch = 0
            /\ \A p \in Pids : procs'[p].state = "free" <=> procs[p].state = "free"
            /\ req'[r].pc = "done" =>
                 /\ ~req'[r].res.success /\ req'[r].res.pid = 0
                 /\ req'[r].res.error.type \in
                        {"DirectoryNotFound", "PortStillBound", "KillFailed"}
                 /\ req'[r].res.error.type = "PortStillBound" <=> req'[r].afterKill.running
                 /\ req'[r].res.error.type = "KillFailed" <=> req[r].pc = "kill"
                 /\ req'[r].res.error.type = "DirectoryNotFound" =>
                        req'[r].res = Failure(400, DirectoryNotFound(req[r].config.directory))]_vars

C2_Witness ==
    \E r \in Slots :
        /\ req[r].op = "start" /\ req[r].pc = "done"
        /\ req[r].res.error = DirectoryNotFound(MissingDir)
        /\ req[r].freed # <<>> /\ req[r].sent # <<>>
        /\ req[r].nLaunch = 0

\* C3: when the inspection after the kills and the settle delay is made with
\* every occupant gone from the port, ensurePortFree returns freed:true with
\* exactly the pids of the initial inspection, each of which was signalled, and
\* the port has no occupant once it has returned.
C3_ReclaimFreed ==
    [][\A r \in Slots :
         (Acts(r) /\ Reclaims(req[r]) /\ req[r].pc = "recheck"
          /\ Occupants(Port(req[r])) = {})
         => /\ req'[r].result = ReclaimResult(Port(req[r]), TRUE, req[r].initial.pids)
            /\ req[r].initial.pids # <<>>
            /\ SeqToSet(req[r].initial.pids) \subseteq SeqToSet(req[r].sent)
            /\ req'[r].res.error.type # "PortStillBound"
            /\ \A port \in Ports :
                 port = Port(req[r]) => ~(checkPort(port, FALSE).running)']_vars

C3_Witness ==
    \E r \in Slots :
        /\ Reclaims(req[r]) /\ req[r].pc = "done" /\ req[r].res.success
        /\ req[r].result = ReclaimResult(PortA, TRUE, <<1, 2>>)
        /\ Occupants(PortA) = {}

\* C4: when the initial inspection of a port finds it unoccupied,
\* ensurePortFree returns freed:false with no pids in that same step: nothing
\* is signalled, no delay is taken and no second inspection is made.
C4_FreePortUntouched ==
    [][\A r \in Slots :
         (Acts(r) /\ Reclaims(req[r]) /\ req[r].pc = "inspect"
          /\ ~req'[r].initial.running)
         => /\ req'[r].result = ReclaimResult(Port(req[r]), FALSE, <<>>)
            /\ req'[r].freed = req[r].freed
            /\ req'[r].sent = req[r].sent
            /\ req'[r].nDelay = req[r].nDelay
            /\ req'[r].nProbe = req[r].nProbe + 1
            /\ req'[r].pc \notin {"kill", "settle", "recheck"}
            /\ \A p \in Pids : procs'[p].signalled = procs[p].signalled]_vars

C4_Witness ==
    \E r \in Slots :
        /\ Reclaims(req[r]) /\ req[r].pc = "inspect" /\ req[r].i = 2
        /\ req[r].result = ReclaimResult(PortA, FALSE, <<>>)
        /\ req[r].sent = <<>> /\ req[r].nDelay = 0 /\ req[r].nProbe = 1

\* C5: status for an identity with no saved configuration answers
\* `unconfigured` in its first step (status 200, not the catch's `unknown`),
\* without a probe and leaving the store, the process map and the operating
\* system's processes as they were.
C5_StatusUnconfigured ==
    [][\A r \in Slots :
         (Acts(r) /\ req'[r].op = "status" /\ ~servers[req'[r].url].defined)
         => /\ req'[r].pc = "done"
            /\ req'[r].res = Unconfigured("Server not configured")
            /\ req'[r].nProbe = 0
            /\ UNCHANGED <<servers, processes, procs>>]_vars

C5_Witness ==
    \E r \in Slots :
        /\ req[r].op = "status" /\ req[r].pc = "done" /\ req[r].url = "svc-b"
        /\ ~servers["svc-b"].defined
        /\ req[r].res.status = "unconfigured"

\* C6: every step of a stop that has sent no signal leaves the store, the
\* process map and the operating system's processes as they were, and a stop
\* whose inspections find none of the configured ports occupied ends with
\* success:false and the NotRunning error (status 200), having sent no signal.
C6_StopNotRunning ==
    [][\A r \in Slots :
         (Acts(r) /\ req'[r].op = "stop" /\ req'[r].sent = <<>>)
         => /\ UNCHANGED <<servers, processes, procs>>
            /\ (req[r].pc = "probe" /\ AllSettled(req'[r].checks)
                /\ \A k \in 1..Len(req'[r].checks) : ~req'[r].checks[k].running)
               => /\ req'[r].pc = "done"
                  /\ req'[r].res = Failure(200, NotRunning)]_vars

C6_Witness ==
    \E r \in Slots :
        /\ req[r].op = "stop" /\ req[r].pc = "done"
        /\ req[r].res.error = NotRunning /\ ~req[r].res.success
        /\ Len(req[r].ports) = 2
        /\ processes[req[r].url] # 0

\* C7 as stated: a stop that directly follows a successful stop of the same
\* identity answers NotRunning.
C7_SecondStopNotRunning ==
    \A k \in 1..(Len(log) - 1) :
        (log[k].op = "stop" /\ log[k].res.success /\ log[k + 1].op = "stop")
        => log[k + 1].res = Failure(200, NotRunning)

\* C7 amended: a stop that directly follows a successful stop of the same
\* identity never throws (status 200); it answers NotRunning, sending no
\* signal, exactly when its inspections find no configured port occupied; the
\* first stop does not wait for the processes it signalled to exit, so when
\* one is still listening the second stop signals what it finds and answers
\* success naming those ports and pids, or the failure of a refused signal.
C7_SecondStopObserves ==
    \A r \in Slots :
        (/\ req[r].op = "stop" /\ req[r].pc = "done"
         /\ Len(log) >= 2 /\ log[Len(log)] = Entry(req[r])
         /\ log[Len(log) - 1].op = "stop" /\ log[Len(log) - 1].res.success)
        => /\ req[r].res.http = 200
           /\ IF \A k \in 1..Len(req[r].checks) : ~req[r].checks[k].running
              THEN req[r].res = Failure(200, NotRunning) /\ req[r].sent = <<>>
              ELSE /\ req[r].sent # <<>>
                   /\ \/ /\ req[r].res.success
                         /\ req[r].res.stoppedPorts =
                              <<[port |-> req[r].checks[1].port,
                                 pids |-> req[r].checks[1].pids]>>
                      \/ req[r].res.error.type = "StopFailed"

C7_Witness ==
    /\ Len(log) >= 2
    /\ log[1].op = "stop" /\ log[1].res.success
    /\ log[2].op = "stop" /\ log[2].res = Failure(200, NotRunning)

\* the scripted client has run start, status, stop, status on svc-a, whose
\* single port no process held before the start
Scenario ==
    /\ Len(log) = 4
    /\ <<log[1].op, log[2].op, log[3].op, log[4].op>> = <<"start", "status", "stop", "status">>
    /\ procs[1].state = "free"

\* C8 as stated: the four responses are success with a pid and no replaced
\* port, running with that pid on the port, success stopping the port with
\* that pid, and stopped.
C8_ScenarioAsStated ==
    Scenario =>
        /\ log[1].res.success /\ log[1].res.pid # 0 /\ log[1].res.replacedPorts = <<>>
        /\ log[2].res.status = "running" /\ log[2].res.pid = log[1].res.pid
        /\ log[2].res.port = PortA
        /\ log[3].res.success
        /\ \E k \in 1..Len(log[3].res.stoppedPorts) :
               /\ log[3].res.stoppedPorts[k].port = PortA
               /\ InSeq(log[1].res.pid, log[3].res.stoppedPorts[k].pids)
        /\ log[4].res.status = "stopped"

\* C8 amended: start answers success with the pid of the spawned process and
\* no replaced port; each later response follows what its own probe finds:
\* status is running, with the port and the first pid found on it, when its
\* probe finds a listener and stopped otherwise (start does not wait for the
\* command to bind the port); stop answers success naming the port and the
\* pids found, or NotRunning when it finds none; the last status is stopped
\* when its probe finds no listener (stop does not wait for the exit).
C8_ScenarioObserved ==
    Scenario =>
        /\ log[1].res.success /\ log[1].res.http = 200
        /\ log[1].res.pid \in LaunchPids /\ log[1].res.replacedPorts = <<>>
        /\ log[1].res.message = [text |-> "starting", port |-> PortA]
        /\ \A n \in {2, 4} :
             /\ Len(log[n].res.ports) = 1 /\ log[n].res.ports[1].port = PortA
             /\ log[n].res.port = PortA
             /\ IF log[n].res.ports[1].running
                THEN /\ log[n].res.status = "running"
                     /\ log[n].res.pid = log[n].res.ports[1].pids[1]
                ELSE log[n].res.status = "stopped" /\ log[n].res.pid = 0
        /\ log[3].res.http = 200
        /\ IF log[3].res.success
           THEN /\ Len(log[3].res.stoppedPorts) = 1
                /\ log[3].res.stoppedPorts[1].port = PortA
                /\ log[3].res.stoppedPorts[1].pids # <<>>
           ELSE log[3].res.error.type \in {"NotRunning", "StopFailed"}

C8_Witness ==
    /\ Scenario
    /\ log[1].res.success /\ log[1].res.replacedPorts = <<>>
    /\ log[2].res.status = "running" /\ log[2].res.pid = log[1].res.pid
    /\ log[2].res.port = PortA
    /\ log[3].res.success
    /\ log[3].res.stoppedPorts = <<[port |-> PortA, pids |-> <<log[1].res.pid>>]>>
    /\ log[4].res.status = "stopped"

\* the start or restart has ended, and the initial inspection of the port it
\* worked on last found a process that was running before the supervisor
ForeignOccupant(q, p) ==
    /\ Reclaims(q) /\ q.pc = "done"
    /\ q.initial.running /\ InSeq(p, q.initial.pids) /\ p \in ExtPids

OnlyPort(c, n) ==
    c.port = Num(n) /\ ~c.ports.isArray /\ ~c.additionalPorts.isArray
PortsTwice(c, n) ==
    c.port = Undef /\ c.ports = Arr(<<Num(n), Num(n)>>) /\ ~c.additionalPorts.isArray
PortAndAdditional(c, n) ==
    c.port = Num(n) /\ ~c.ports.isArray /\ c.additionalPorts = Arr(<<Num(n)>>)

\* C10: a handler that has loaded a configuration of the shape `port: n`,
\* `ports: [n, n]` or `port: n, additionalPorts: [n]` works on the one-element
\* port list <<n>>.
C10_SameSinglePort ==
    \A r \in Slots : \A n \in Ports :
        LET c == servers[req[r].url] IN
        (req[r].pc # "idle"
         /\ (OnlyPort(c, n) \/ PortsTwice(c, n) \/ PortAndAdditional(c, n)))
        => req[r].ports = <<n>> /\ req[r].pc = "probe"

C10_Witness ==
    \E r \in Slots :
        /\ req[r].pc = "probe" /\ PortsTwice(servers[req[r].url], PortA)
        /\ req[r].ports = <<PortA>>

\* C11 as stated: a status whose operating-system query fails answers
\* `unknown`; here the query that fails is the one whose answer completes the
\* status.
C11_ProbeFailureUnknown ==
    [][\A r \in Slots : \A k \in 1..2 :
         (StatusProbe(r, k, TRUE, 0) /\ req'[r].pc = "done")
         => req'[r].res.status = "unknown"]_vars

\* a response as the handlers send it: a status value, or a success flag
\* with a message or an error
Structured(q) ==
    /\ q.res.http \in {200, 400, 500}
    /\ IF q.op = "status"
       THEN /\ q.res.status \in {"running", "stopped", "unconfigured", "unknown"}
            /\ q.res.http = 200
       ELSE /\ q.res.status = ""
            /\ IF q.res.success
               THEN /\ q.res.http = 200 /\ q.res.error = NoErr
                    /\ q.res.message.text # ""
               ELSE q.res.error.type # "none" /\ q.res.message = NoMsg

\* the handler of q is suspended at an await whose callback the operating
\* system will run: a probe yet to resolve, a port or pid of the loop it is
\* in, or a timer
Suspended(q) ==
    /\ q.res = NoRes
    /\ q.pc \in {"probe", "inspect", "kill", "settle", "recheck", "pause", "final"}
    /\ q.pc = "probe" => /\ q.op \in {"status", "stop"}
                         /\ \E k \in 1..Len(q.checks) : ~q.checks[k].settled
    /\ q.pc \in {"inspect", "settle", "recheck"}
       => Reclaims(q) /\ q.i \in 1..Len(q.ports)
    /\ q.pc \in {"pause", "final"} => q.op = "stop"
    /\ q.pc = "kill"
       => IF Reclaims(q) THEN q.j \in 1..Len(q.initial.pids)
          ELSE /\ q.op = "stop" /\ q.i \in 1..Len(RunningPorts(q.checks))
               /\ q.j \in 1..Len(RunningPorts(q.checks)[q.i].pids)

\* C12: a request is either suspended at one of the handlers' awaits, with no
\* response sent yet, or finished with one structured response; a finished
\* request's record changes only when the next invocation begins, so no
\* invocation answers twice, and none leaves the handlers any other way.
C12_OneStructuredOutcome ==
    /\ [](\A r \in Slots :
            \/ req[r].pc = "idle"
            \/ req[r].pc = "done" /\ Structured(req[r])
            \/ Suspended(req[r]))
    /\ [][\A r \in Slots :
            (Acts(r) /\ req[r].pc = "done")
            => /\ req'[r].nProbe = 0 /\ req'[r].nDelay = 0
               /\ req'[r].sent = <<>> /\ req'[r].nLaunch = 0]_vars

\* every kind of outcome has been seen: here a stop whose signal was refused
C12_Witness ==
    \E r \in Slots :
        /\ req[r].op = "stop" /\ req[r].pc = "done"
        /\ req[r].res = Failure(200, StopFailed(1))
        /\ req[r].sent = <<1>>

\* C13: ensurePortsFree works on the ports of the configuration one at a time
\* and in their order: every probe and signal of a start or restart concerns
\* the port at the loop position, the position moves on by one only in the
\* step in which ensurePortFree returns for that port, and when the
\* inspection after the kills finds the port occupied the request ends in
\* that step with PortStillBound for that port, without a launch and with the
\* later ports neither probed nor signalled.
C13_SequentialFailFast ==
    /\ [](\A r \in Slots :
            (Reclaims(req[r]) /\ req[r].ports # <<>>)
            => /\ req[r].i \in 1..Len(req[r].ports)
               /\ req[r].nProbe \in (req[r].i - 1)..(2 * req[r].i)
               /\ req[r].nDelay <= req[r].i)
    /\ [][\A r \in Slots :
            (Acts(r) /\ Reclaims(req[r]) /\ req[r].pc \notin {"idle", "done"})
            => LET q == req[r]
                   q2 == req'[r]
               IN  /\ q.ports = getConfigPorts(q.config) /\ q2.ports = q.ports
                   /\ q2.i \in {q.i, q.i + 1}
                   /\ q2.i = q.i + 1
                      => /\ q.pc \in {"inspect", "recheck"} /\ q2.pc = "inspect"
                         /\ q2.result.port = Port(q)
                         /\ q.pc = "inspect" => ~q2.initial.running
                         /\ q.pc = "recheck" => ~q2.afterKill.running
                   /\ q.pc = "inspect"
                      => /\ q2.initial \in {checkPort(Port(q), f) : f \in BOOLEAN}
                         /\ q2.nProbe = q.nProbe + 1
                   /\ q.pc = "recheck"
                      => /\ q2.afterKill \in {checkPort(Port(q), f) : f \in BOOLEAN}
                         /\ q2.nProbe = q.nProbe + 1
                   /\ IF q.pc = "kill"
                      THEN /\ q2.sent = Append(q.sent, q.initial.pids[q.j])
                           /\ procs' = Signal(q.initial.pids[q.j])
                      ELSE q2.sent = q.sent
                   /\ (q.pc = "recheck" /\ q2.afterKill.running)
                      => /\ q2.pc = "done" /\ q2.i = q.i /\ q2.nLaunch = 0
                         /\ q2.res = Failure(500, PortStillBound(Port(q), q2.afterKill.pids))
                         /\ UNCHANGED <<processes, procs>>]_vars

\* the first of two ports could not be freed; the second, occupied as well,
\* was left alone
C13_Witness ==
    \E r \in Slots :
        /\ Reclaims(req[r]) /\ req[r].pc = "done"
        /\ req[r].ports = <<PortA, PortB>> /\ req[r].i = 1
        /\ req[r].res.error = PortStillBound(PortA, <<1>>)
        /\ req[r].nProbe = 2 /\ req[r].sent = <<1>> /\ req[r].nLaunch = 0
        /\ Occupants(PortB) = {2} /\ ~procs[2].signalled

\* C14: nothing makes a start wait for another request on the same identity:
\* a client may begin a start whatever the other request is doing, and each
\* request probes, signals and launches on its own.
C14_NoMutualExclusion ==
    \A r \in Slots :
        IF req[r].pc \in {"idle", "done"}
        THEN ENABLED StartBegin(r, "svc-a", 0)
        ELSE (ENABLED StartHandler(r)) \/ FreshPids = {}

\* two starts of svc-a have each found process 1 on the port, signalled it,
\* seen the port free and launched: two live launched processes for port A
C14_Witness ==
    /\ \A r \in Slots :
         /\ req[r].op = "start" /\ req[r].url = "svc-a" /\ req[r].pc = "done"
         /\ req[r].res.success /\ req[r].nLaunch = 1
         /\ req[r].res.replacedPorts = <<[port |-> PortA, pids |-> <<1>>]>>
    /\ req[1].res.pid # req[2].res.pid
    /\ \A r \in Slots :
         LET p == req[r].res.pid
         IN  /\ procs[p].state = "alive" /\ procs[p].launched
             /\ procs[p].holds \cup procs[p].wants = {PortA}

\* the checks of q that found a listener, in the order of the ports
Found(q) == {k \in 1..Len(q.checks) : q.checks[k].running}

\* C15: what a finished operation answered and did is fixed by the
\* configuration and by what its own probes and signals met, whatever the
\* process map holds for the identity (no entry, the pid of the listener, or
\* a stale pid): status is running exactly when a probe found a listener and
\* names the pid the probe found; stop signals every pid its probes found and
\* answers NotRunning exactly when they found none; start and restart launch
\* exactly when no signal was refused, the port was free at the last
\* inspection and the directory exists.
C15_RecordNeverConsulted ==
    \A r \in Slots :
        LET q == req[r] IN
        (q.pc = "done" /\ q.ports # <<>>)
        => /\ q.op = "status"
              => /\ q.res.status = IF Found(q) = {} THEN "stopped" ELSE "running"
                 /\ q.res.ports = q.checks
                 /\ \A k \in Found(q) :
                      (\A m \in Found(q) : k <= m)
                      => q.res.pid = q.checks[k].pid /\ q.res.port = q.checks[k].port
           /\ q.op = "stop"
              => /\ Found(q) = {} <=> q.res = Failure(200, NotRunning)
                 /\ Found(q) = {} => q.sent = <<>>
                 /\ q.res.success
                    => /\ \A k \in Found(q) :
                            SeqToSet(q.checks[k].pids) \subseteq SeqToSet(q.sent)
                       /\ Len(q.res.stoppedPorts) = Cardinality(Found(q))
                 /\ q.res.success \/ q.res.error.type \in {"NotRunning", "StopFailed"}
           /\ Reclaims(q)
              => /\ q.res.success <=> q.nLaunch = 1
                 /\ q.res.error.type # "KillFailed"
                    => (q.res.success <=> /\ ~q.afterKill.running
                                          /\ q.config.directory \in ExistingDirs)
                 /\ q.res.success => q.res.replacedPorts = q.freed

\* status names the listener its probe found while the process map holds the
\* pid of another process, which has exited
C15_Witness ==
    \E r \in Slots :
        /\ req[r].op = "status" /\ req[r].pc = "done"
        /\ req[r].res.status = "running"
        /\ processes[req[r].url] \notin {0, req[r].res.pid}
        /\ procs[processes[req[r].url]].state = "dead"

\* a request record without the operation's name and message text
Mechanics(q) == [q EXCEPT !.op = "start", !.res.message.text = ""]

\* what the start handler makes of its state q once ensurePortFree has gone
\* as far as q1: launchServer and the response, or q1 itself
StartOutcome(q1) ==
    IF q1.pc = "launch"
    THEN Respond([q1 EXCEPT !.nLaunch = @ + 1], StartResponse(q1, FreshPid))
    ELSE q1

\* C16: every step of a restart is the step the start handler takes from the
\* same request state, configuration and processes: the same probe, the same
\* signal, the same launch, process-map entry, success flag, pid and
\* replacedPorts; only the message differs, restart saying `restarted` when
\* it freed at least one port and `started` when it freed none.
C16_RestartAsStart ==
    [][\A r \in Slots :
         (Acts(r) /\ req'[r].op = "restart")
         => LET q == [req[r] EXCEPT !.op = "start"]
                q2 == req'[r]
                launches == q2.nLaunch = req[r].nLaunch + 1 /\ req[r].pc \notin {"idle", "done"}
            IN  /\ CASE req[r].pc \in {"idle", "done"} ->
                          Mechanics(q2) = Load("start", q2.url, Failure(400, ConfigurationMissing),
                                               Failure(400, NoPortsConfigured), "inspect")
                     [] req[r].pc = "inspect" ->
                          \E fail \in BOOLEAN :
                              Mechanics(q2) = Mechanics(StartOutcome(
                                  ensurePortFreeInitial(q, checkPort(Port(q), fail))))
                     [] req[r].pc = "kill" ->
                          /\ Mechanics(q2) = killProcesses(q, q.initial.pids,
                                 Failure(500, KillFailed(q.initial.pids[q.j])), "settle")
                          /\ procs' = Signal(q.initial.pids[q.j])
                     [] req[r].pc = "settle" ->
                          Mechanics(q2) = [q EXCEPT !.nDelay = @ + 1, !.pc = "recheck"]
                     [] req[r].pc = "recheck" ->
                          \E fail \in BOOLEAN :
                              Mechanics(q2) = Mechanics(StartOutcome(
                                  ensurePortFreeAfterKill(q, checkPort(Port(q), fail))))
                /\ IF launches
                   THEN /\ procs' = [procs EXCEPT ![q2.res.pid] = launchServer(q.config, q.url, q.ports)]
                        /\ processes' = [processes EXCEPT ![q.url] = q2.res.pid]
                        /\ q2.res.success /\ q2.res.replacedPorts = q2.freed
                        /\ q2.res.message =
                             [text |-> IF Len(q2.freed) >= 1 THEN "restarted" ELSE "started",
                              port |-> q.ports[1]]
                   ELSE /\ processes' = processes
                        /\ req[r].pc # "kill" => procs' = procs
                        /\ q2.res.message = NoMsg]_vars

\* a restart that found the port free: it says `started`
C16_Witness ==
    \E r \in Slots :
        /\ req[r].op = "restart" /\ req[r].pc = "done" /\ req[r].res.success
        /\ req[r].freed = <<>> /\ req[r].res.message.text = "started"
        /\ req[r].nLaunch = 1 /\ processes[req[r].url] = req[r].res.pid

\* C17: a start or restart that has called launchServer has inspected every
\* configured port before, and its latest inspection of each found nothing
\* listening; the launch is made in the step in which the last of these
\* inspections resolves.
C17_LaunchAfterPortsFree ==
    /\ [](\A r \in Slots :
            (Reclaims(req[r]) /\ req[r].nLaunch >= 1)
            => /\ req[r].ports # <<>> /\ req[r].ports = getConfigPorts(req[r].config)
               /\ \A k \in 1..Len(req[r].ports) : req[r].seen[k] = "free"
               /\ req[r].nProbe >= Len(req[r].ports)
               /\ req[r].nLaunch = 1)
    /\ [][\A r \in Slots :
            (Reclaims(req'[r]) /\ req'[r].nLaunch = 1 /\ req[r].nLaunch = 0)
            => /\ req[r].pc \in {"inspect", "recheck"} /\ req[r].i = Len(req[r].ports)
               /\ req'[r].nProbe = req[r].nProbe + 1
               /\ \A k \in 1..(Len(req[r].ports) - 1) : req[r].seen[k] = "free"
               /\ IF req[r].pc = "inspect" THEN ~req'[r].initial.running
                  ELSE ~req'[r].afterKill.running]_vars

\* launched after two ports were found free, the first at once and the second
\* once its occupant had been terminated
C17_Witness ==
    \E r \in Slots :
        /\ Reclaims(req[r]) /\ req[r].pc = "done" /\ req[r].nLaunch = 1
        /\ req[r].ports = <<PortA, PortB>> /\ req[r].seen = <<"free", "free">>
        /\ req[r].nProbe = 3 /\ req[r].freed = <<[port |-> PortB, pids |-> <<1>>]>>

\* the entry a save with these fields writes
Saved(directory, command, port) ==
    [defined |-> TRUE, directory |-> directory, command |-> command,
     port |-> port, ports |-> NoArr, additionalPorts |-> NoArr]

\* C18: a save with a directory, a command and a port replaces the entry of
\* its identity by exactly these three fields (port lists of the entry it
\* replaces are gone), leaves every other identity's entry as it was, and the
\* configuration read back for the identity is the one saved; a request that
\* loads an identity works on the entry the store holds for it.
C18_SaveReplacesEntry ==
    [][/\ \A url \in Ids, directory \in SaveDirs, command \in SaveCmds, port \in SavePorts :
            (Save(url, directory, command, port)
             /\ directory # "" /\ command # "" /\ ~Falsy(port))
            => /\ servers'[url] = Saved(directory, command, port)
               /\ \A o \in Ids \ {url} : servers'[o] = servers[o]
               /\ getServerConfig(url)' = [found |-> TRUE,
                                           config |-> Saved(directory, command, port)]
       /\ \A r \in Slots :
            (Acts(r) /\ req'[r].pc = "probe")
            => req'[r].config = servers[req'[r].url]]_vars

\* an entry with port lists has been replaced by a save, and read back
C18_Witness ==
    /\ servers["svc-a"] = Saved(MissingDir, Cmd, NumStr(PortA))
    /\ servers["svc-b"] = CfgOther
    /\ req[1].op = "status" /\ req[1].url = "svc-a"
    /\ req[1].config = servers["svc-a"] /\ req[1].ports = <<PortA>>

\* the values of the three port fields of c, in the order getConfigPorts reads
\* them
PortFields(c) ==
    <<c.port>> \o (IF c.ports.isArray THEN c.ports.items ELSE <<>>)
              \o (IF c.additionalPorts.isArray THEN c.additionalPorts.items ELSE <<>>)

\* a number, or the decimal string of one, that is a positive integer
PositiveInteger(v) == v.t \in {"number", "numstring"} /\ v.n > 0

RECURSIVE FirstOccurrences(_, _)
FirstOccurrences(seen, values) ==
    IF values = <<>> THEN seen
    ELSE FirstOccurrences(IF PositiveInteger(Head(values)) /\ ~InSeq(Head(values).n, seen)
                          THEN Append(seen, Head(values).n) ELSE seen,
                          Tail(values))

\* C19 as stated: the ports a handler works on are the positive integers among
\* the values of `port`, `ports` and `additionalPorts`, each once, in the
\* order of first occurrence; every other value is dropped.
C19_NormalizedPorts ==
    \A r \in Slots :
        req[r].pc # "idle"
        => req[r].ports = FirstOccurrences(<<>>, PortFields(servers[req[r].url]))

\* C20 as stated: a stop that found occupied ports and signalled their
\* occupants has taken the delay once.
C20_StopDelaysOnce ==
    \A r \in Slots :
        (req[r].op = "stop" /\ req[r].pc = "done" /\ req[r].res.success)
        => req[r].nDelay = 1

\* the pids stop's probes found, port by port in the order of the ports
RECURSIVE ObservedPids(_)
ObservedPids(runningPorts) ==
    IF runningPorts = <<>> THEN <<>>
    ELSE Head(runningPorts).pids \o ObservedPids(Tail(runningPorts))

\* C21 as stated: a stop that found an occupied port has signalled every pid
\* its probes found, port by port.
C21_StopSignalsAll ==
    \A r \in Slots :
        (req[r].op = "stop" /\ req[r].pc = "done" /\ Found(req[r]) # {})
        => req[r].sent = ObservedPids(RunningPorts(req[r].checks))

\* what stop does: it signals the pids its probes found, port by port in the
\* order of the ports and pid by pid in the order found, until a signal is
\* refused; a stop that answers success has signalled every one of them, and
\* a stop whose signal was refused ends there, naming that pid, with the pids
\* after it not signalled.
StopSignalsUntilRefused ==
    \A r \in Slots :
        LET q == req[r]
            all == ObservedPids(RunningPorts(q.checks))
        IN  (q.op = "stop" /\ q.pc \notin {"idle", "probe"})
            => /\ Len(q.sent) <= Len(all)
               /\ q.sent = SubSeq(all, 1, Len(q.sent))
               /\ (q.pc = "done" /\ q.res.success) => q.sent = all /\ all # <<>>
               /\ (q.pc = "done" /\ Found(q) # {} /\ ~q.res.success)
                  => /\ q.sent # <<>>
                     /\ q.res = Failure(200, StopFailed(q.sent[Len(q.sent)]))
               /\ q.pc \in {"pause", "final"} => q.sent # <<>>

\* C22: a `kill pid` that answers `No such process` counts as done: the
\* handler goes on to the next pid (or past the batch) with no response sent
\* and no process touched; a delivered signal marks its target and goes on the
\* same way; any other failure ends the request with a failure that names the
\* pid. So a stop none of whose signals failed otherwise answers success,
\* also when one pid holds two ports and is signalled twice.
C22_NoSuchProcessIsSuccess ==
    /\ [][\A r \in Slots :
            (Acts(r) /\ req[r].pc = "kill")
            => LET q == req[r]
                   q1 == req'[r]
                   pids == IF q.op = "stop" THEN RunningPorts(q.checks)[q.i].pids
                           ELSE q.initial.pids
                   pid == pids[q.j]
                   outcome == KillOutcome(pid)
                   goesOn == /\ q1.res = NoRes
                             /\ IF q.j < Len(pids)
                                THEN q1.pc = "kill" /\ q1.j = q.j + 1 /\ q1.i = q.i
                                ELSE q1.pc = IF q.op = "stop" THEN "pause" ELSE "settle"
               IN  /\ q1.sent = Append(q.sent, pid)
                   /\ outcome = "No such process"
                      => goesOn /\ procs' = procs /\ q1.gone = Append(q.gone, pid)
                   /\ outcome = "delivered"
                      => goesOn /\ procs' = [procs EXCEPT ![pid].signalled = TRUE]
                                /\ q1.gone = q.gone
                   /\ outcome = "Operation not permitted"
                      => /\ q1.pc = "done" /\ ~q1.res.success
                         /\ q1.res.error = IF q.op = "stop" THEN StopFailed(pid)
                                           ELSE KillFailed(pid)
                         /\ procs' = procs]_vars
    /\ [](\A r \in Slots :
            LET q == req[r] IN
            (q.op = "stop" /\ q.pc = "done" /\ q.gone # <<>>
             /\ q.res.error.type # "StopFailed")
            => q.res.success /\ q.sent = ObservedPids(RunningPorts(q.checks)))

\* a stop found pid 1 on both ports; its first signal was delivered, the
\* process was gone when the second one was sent, and the stop succeeded
C22_Witness ==
    \E r \in Slots :
        /\ req[r].op = "stop" /\ req[r].pc = "done" /\ req[r].res.success
        /\ req[r].sent = <<1, 1>> /\ req[r].gone = <<1>>
        /\ Len(req[r].res.stoppedPorts) = 2

\* C23: the process map changes only at the step of a start or restart that
\* launches, which sets the identity's record to the pid the response
\* carries, and at the step of a stop that answers success, which removes the
\* identity's record; every other step of a request (all steps of a status
\* call and of an operation that answers failure among them) and every step
\* of a process leaves the whole map unchanged.
C23_LaunchRecordChanges ==
    [][/\ (\A r \in Slots : ~Acts(r)) => processes' = processes
       /\ \A r \in Slots :
            Acts(r)
            => LET q1 == req'[r]
                   answers == q1.pc = "done" /\ q1.res.success
               IN  IF answers /\ q1.op \in {"start", "restart"}
                   THEN /\ q1.res.pid # 0 /\ q1.nLaunch = 1
                        /\ processes' = [processes EXCEPT ![q1.url] = q1.res.pid]
                   ELSE IF answers /\ q1.op = "stop"
                   THEN processes' = [processes EXCEPT ![q1.url] = 0]
                   ELSE /\ processes' = processes
                        /\ q1.nLaunch = 0]_vars

\* svc-a was launched twice with no process but the first launch ever on its
\* port, and that one never signalled: the second launch wrote its pid over
\* the record of the first
C23_Witness ==
    /\ servers["svc-b"] = NoConfig
    /\ procs[1].state = "free" /\ procs[2].state = "free"
    /\ procs[3].state = "alive" /\ procs[3].launched /\ ~procs[3].signalled
    /\ req[1].op \in {"start", "restart"} /\ req[1].pc = "done" /\ req[1].res.success
    /\ req[1].url = "svc-a" /\ req[1].res.pid = 4 /\ processes["svc-a"] = 4

C25_ReplacedPortsExact ==
    /\ [][\A r \in Slots :
            (Acts(r) /\ Reclaims(req[r]) /\ req[r].pc \notin {"idle", "done"})
            => LET q == req[r]
                   q1 == req'[r]
               IN  /\ q.pc = "inspect" => q1.freed = q.freed
                   /\ q.pc \in {"kill", "settle"} => q1.freed = q.freed /\ q.initial.running
                   /\ q.pc = "recheck"
                      => /\ q.initial.running
                         /\ q1.freed = IF q1.afterKill.running THEN q.freed
                                       ELSE Append(q.freed, [port |-> Port(q),
                                                             pids |-> q.initial.pids])
                   /\ (q1.pc = "done" /\ q1.res.success) => q1.res.replacedPorts = q1.freed
                   /\ q1.pc # "done" => q1.i \in {q.i, q.i + 1}]_vars
    /\ [](\A r \in Slots :
            Reclaims(req[r])
            => LET q == req[r]
                   at(e) == CHOOSE k \in 1..Len(q.ports) : q.ports[k] = q.freed[e].port
               IN  /\ Len(q.freed) <= Len(q.ports)
                   /\ \A e \in 1..Len(q.freed) :
                        /\ InSeq(q.freed[e].port, q.ports)
                        /\ q.freed[e].pids # <<>>
                        /\ at(e) <= q.i
                        /\ e > 1 => at(e - 1) < at(e)
                   /\ (q.pc = "done" /\ q.res.success)
                      => \A k \in 1..Len(q.ports) :
                            q.seen[k] = "free"
                            /\ Cardinality({e \in 1..Len(q.freed) :
                                              q.freed[e].port = q.ports[k]}) <= 1)

\* two configured ports: the first was found free and has no entry, the
\* second was occupied by pids 1 and 2 and is the only entry
C25_Witness ==
    \E r \in Slots :
        /\ Reclaims(req[r]) /\ req[r].pc = "done" /\ req[r].res.success
        /\ req[r].ports = <<PortA, PortB>>
        /\ req[r].res.replacedPorts = <<[port |-> PortB, pids |-> <<1, 2>>]>>
        /\ req[r].nProbe = 3

\* C26: the first step of a start, stop or restart whose identity has no
\* saved configuration answers 400 with ConfigurationMissing, and one whose
\* configuration yields no port answers 400 with NoPortsConfigured; that step
\* is the whole operation: no port was inspected, no signal sent, no delay
\* taken, nothing launched, and the store, the process map and the processes
\* are as before.
C26_NothingWithoutConfiguration ==
    [][\A r \in Slots :
         (Acts(r) /\ req[r].pc \in {"idle", "done"}
          /\ req'[r].op \in {"start", "stop", "restart"})
         => LET q1 == req'[r]
                config == servers[q1.url]
                untouched == /\ q1.pc = "done" /\ ~q1.res.success
                             /\ q1.nProbe = 0 /\ q1.sent = <<>> /\ q1.nDelay = 0
                             /\ q1.nLaunch = 0 /\ q1.checks = <<>>
                             /\ UNCHANGED <<servers, processes, procs>>
            IN  IF ~config.defined
                THEN q1.res = Failure(400, ConfigurationMissing) /\ untouched
                ELSE IF getConfigPorts(config) = <<>>
                THEN q1.res = Failure(400, NoPortsConfigured) /\ untouched
                ELSE q1.pc # "done" /\ q1.res = NoRes]_vars

\* a restart of svc-a, whose only port field is not a number, was answered
\* NoPortsConfigured while pid 1 listens and a launch of svc-b is on record
C26_Witness ==
    \E r \in Slots :
        /\ req[r].op = "restart" /\ req[r].pc = "done"
        /\ req[r].res = Failure(400, NoPortsConfigured)
        /\ req[r].url = "svc-a" /\ servers["svc-a"] = CfgNoPorts
        /\ procs[1].state = "alive" /\ ~procs[1].signalled
        /\ processes["svc-b"] # 0

\* the accepted saves for an identity, by their position in the order handled
SavesFor(u) == {k \in 1..Len(log) : log[k].url = u}

\* C27: the handler of a save runs from its validation to its response in one
\* step of the event loop, so whatever saves are waiting together, the store
\* holds for every identity saved the entry written by the save handled last
\* for it; a step that is not the handling of an accepted save leaves the
\* store alone, and the handling of one changes the entry of its identity
\* only.
C27_NoLostUpdate ==
    /\ [](\A u \in Ids :
            SavesFor(u) # {}
            => LET last == CHOOSE k \in SavesFor(u) : \A m \in SavesFor(u) : m <= k
               IN  servers[u] = log[last].config)
    /\ [][\A u \in Ids :
            servers'[u] # servers[u]
            => \E r \in Slots :
                  /\ req[r].op = "save" /\ req[r].pc = "received" /\ req[r].url = u
                  /\ req'[r].pc = "done" /\ req'[r].res.success
                  /\ servers' = [servers EXCEPT ![u] = req[r].config]]_vars

\* three saves were accepted: one for svc-a, then one for svc-b handled while
\* another save for svc-a was waiting, then that one; the store holds svc-b's
\* entry and the later entry of svc-a
C27_Witness ==
    /\ Len(log) = 3
    /\ log[1].url = "svc-a" /\ log[2].url = "svc-b" /\ log[3].url = "svc-a"
    /\ log[2].waiting = {"received"}
    /\ log[1].config.port = Num(PortA) /\ log[3].config.port = NumStr(PortB)
    /\ servers["svc-a"] = log[3].config /\ servers["svc-b"] = log[2].config
    /\ \A r \in Slots : req[r].pc = "done"

Operates(q) == q.op \in {"start", "stop", "restart"}

\* C28: a start, stop or restart takes the configuration of its identity from
\* the store in its first step and never again: every later step keeps that
\* configuration and its ports, each inspection it makes is of one of those
\* ports, the directory it tests and answers DirectoryNotFound with is the one
\* it loaded, and the process it launches runs the command it loaded in that
\* directory; the handling of a save, whatever it writes and wherever the
\* operation is waiting, leaves the operation as it is.
C28_ConfigSnapshot ==
    [][\A r \in Slots :
         LET q == req[r]
             q1 == req'[r]
         IN  /\ (Acts(r) /\ q.pc \in {"idle", "done"} /\ Operates(q1)
                 /\ servers[q1.url].defined /\ getConfigPorts(servers[q1.url]) # <<>>)
                => /\ q1.config = servers[q1.url]
                   /\ q1.ports = getConfigPorts(servers[q1.url])
             /\ (Acts(r) /\ Operates(q) /\ q.pc \notin {"idle", "done"})
                => /\ q1.config = q.config /\ q1.ports = q.ports /\ q1.url = q.url
                   /\ servers' = servers
                   /\ q.pc = "inspect"
                      => \E fail \in BOOLEAN : q1.initial = checkPort(q.ports[q.i], fail)
                   /\ q.pc = "recheck"
                      => \E fail \in BOOLEAN : q1.afterKill = checkPort(q.ports[q.i], fail)
                   /\ q.pc = "probe"
                      => \E k \in 1..Len(q.ports), fail \in BOOLEAN :
                            q1.checks = [q.checks EXCEPT ![k] =
                                            Settled(q.ports[k], checkPort(q.ports[k], fail))]
                   /\ q1.res.error.type = "DirectoryNotFound"
                      => /\ q.config.directory \notin ExistingDirs
                         /\ q1.res.error.path = q.config.directory
                   /\ q1.nLaunch = 1
                      => /\ q.config.directory \in ExistingDirs
                         /\ procs'[q1.res.pid].state = "alive"
                         /\ procs'[q1.res.pid].cmd = q.config.command
                         /\ procs'[q1.res.pid].cwd = q.config.directory
                         /\ procs'[q1.res.pid].wants = SeqToSet(q.ports)
                   /\ (q.op = "stop" /\ q1.res.success)
                      => \A k \in 1..Len(q1.res.stoppedPorts) :
                            InSeq(q1.res.stoppedPorts[k].port, q.ports)
             /\ (servers' # servers /\ Operates(q)) => q1 = q]_vars

\* the only save ever accepted was handled while the start was in its settle
\* delay and wrote another port, a missing directory and another command; the
\* start went on to free port 3000, found its directory and launched the
\* command it had loaded
C28_Witness ==
    /\ Len(log) = 1 /\ log[1].waiting = {"settle"}
    /\ servers["svc-a"] = Saved(MissingDir, OtherCmd, Num(PortB))
    /\ req[1].op = "start" /\ req[1].pc = "done" /\ req[1].res.success
    /\ req[1].config = CfgSingle
    /\ req[1].res.replacedPorts = <<[port |-> PortA, pids |-> <<1>>]>>
    /\ procs[req[1].res.pid].cmd = Cmd /\ procs[req[1].res.pid].cwd = GoodDir

====
